---- MODULE Spec2Model ----
(***************************************************************************)
(* Real-time scheduling simulator: the task/job model (task.py), the six  *)
(* scheduling policies (scheduler.py), the four aperiodic servers          *)
(* (aperiodic_server.py) and the simulation engine (simulator.py).         *)
(*                                                                         *)
(* Time values are integer multiples of the time unit of the scenario.    *)
(* The unit is either 1 ("one": the tolerance 1e-9 of Job.is_complete is   *)
(* below one unit) or 1e-9 ("nano": the tolerance is exactly one unit).    *)
(***************************************************************************)
EXTENDS Integers, Sequences, FiniteSets, TLC

\* ------------------------------------------------------------------ bounds
MaxExec == 2
GenHorizon == 4
MaxRuns == 2
MaxCallTime == 4
MaxAmount == 3

\* --------------------------------------------------------- program constants
NONE == 0
NoTime == 0 - 1
Infinity == 1000000

Min_zero(a, b) == 0
Min(a, b) == IF a <= b THEN a ELSE b
Max(a, b) == IF a >= b THEN a ELSE b

\* ------------------------------------------------------------------ task.py
\* Task.__init__: the deadline defaults to the period when it is not > 0.
Task(type, execution_time, period, deadline, release_time) ==
    [type |-> type, execution_time |-> execution_time, period |-> period,
     deadline |-> IF deadline > 0 THEN deadline ELSE period,
     release_time |-> release_time]

Job_no_deadline(tasks, ti, release_time) ==
    [task |-> ti,
     type |-> tasks[ti].type,
     remaining |-> tasks[ti].execution_time,
     abs_deadline |-> release_time,
     current_release |-> release_time,
     started |-> FALSE,
     start_time |-> NoTime,
     completion_time |-> NoTime,
     preemption_count |-> 0]
\* Job.__init__
Job(tasks, ti, release_time) ==
    [task |-> ti,
     type |-> tasks[ti].type,
     remaining |-> tasks[ti].execution_time,
     abs_deadline |-> release_time + tasks[ti].deadline,
     current_release |-> release_time,
     started |-> FALSE,
     start_time |-> NoTime,
     completion_time |-> NoTime,
     preemption_count |-> 0]

\* 1e-9 expressed in the time unit of the scenario, rounded down.
Epsilon(unit) == IF unit = "nano" THEN 1 ELSE 0

is_complete_loose(job, unit) == job.remaining <= Epsilon(unit) + 1
\* Job.is_complete: remaining <= 1e-9
is_complete(job, unit) == job.remaining <= Epsilon(unit)

is_deadline_missed_inverted(job, unit, current_time) ==
    current_time > job.abs_deadline /\ is_complete(job, unit)
is_deadline_missed_at(job, unit, current_time) ==
    current_time >= job.abs_deadline /\ ~is_complete(job, unit)
\* Job.is_deadline_missed: current_time > abs_deadline and not complete
is_deadline_missed(job, unit, current_time) ==
    current_time > job.abs_deadline /\ ~is_complete(job, unit)

execute_stuck(job, duration) == [job EXCEPT !.started = TRUE]
\* Job.execute: the job after executing; the actual time is
\* min(duration, remaining)
execute(job, duration) ==
    [job EXCEPT !.started = TRUE,
                !.remaining = Max(0, job.remaining - Min(duration, job.remaining))]

\* ---------------------------------------------------------------- parser.py
\* TaskSet.add_task: the partitions keep the order in which tasks were added.
OfType(tasks, type) ==
    SelectSeq([i \in 1..Len(tasks) |-> i], LAMBDA i : tasks[i].type = type)

\* ------------------------------------------------------------- simulator.py
RECURSIVE periodic_jobs_inclusive(_, _, _, _)
periodic_jobs_inclusive(tasks, ti, release_time, simulation_time) ==
    IF release_time <= simulation_time
    THEN <<Job(tasks, ti, release_time)>>
         \o periodic_jobs_inclusive(tasks, ti, release_time + tasks[ti].period,
                                    simulation_time)
    ELSE <<>>

RECURSIVE periodic_jobs(_, _, _, _)
\* the while loop of _generate_task_instances for one periodic task
periodic_jobs(tasks, ti, release_time, simulation_time) ==
    IF release_time < simulation_time
    THEN <<Job(tasks, ti, release_time)>>
         \o periodic_jobs(tasks, ti, release_time + tasks[ti].period, simulation_time)
    ELSE <<>>

RECURSIVE periodic_instances(_, _, _)
\* the for loop over task_set.periodic_tasks; tis are task indices
periodic_instances(tasks, tis, simulation_time) ==
    IF tis = <<>> THEN <<>>
    ELSE periodic_jobs(tasks, Head(tis), tasks[Head(tis)].release_time, simulation_time)
         \o periodic_instances(tasks, Tail(tis), simulation_time)

\* the for loop over task_set.dynamic_tasks: one job at time 0 each
dynamic_instances(tasks, tis) ==
    [k \in 1..Len(tis) |-> Job(tasks, tis[k], 0)]

\* the for loop over task_set.aperiodic_tasks: one job at the release time
aperiodic_instances(tasks, tis) ==
    [k \in 1..Len(tis) |-> Job(tasks, tis[k], tasks[tis[k]].release_time)]

sort_insert_before(sorted, job) ==
    LET n == Cardinality({i \in 1..Len(sorted) :
                            sorted[i].current_release < job.current_release})
    IN  SubSeq(sorted, 1, n) \o <<job>> \o SubSeq(sorted, n + 1, Len(sorted))
\* list.sort(key=current_release): stable insertion of one job
sort_insert(sorted, job) ==
    LET n == Cardinality({i \in 1..Len(sorted) :
                            sorted[i].current_release <= job.current_release})
    IN  SubSeq(sorted, 1, n) \o <<job>> \o SubSeq(sorted, n + 1, Len(sorted))

RECURSIVE sort_by_release(_)
sort_by_release(jobs) ==
    IF jobs = <<>> THEN <<>>
    ELSE sort_insert(sort_by_release(SubSeq(jobs, 1, Len(jobs) - 1)), jobs[Len(jobs)])

\* Simulator._generate_task_instances
generate_task_instances(tasks, simulation_time) ==
    sort_by_release(
        periodic_instances(tasks, OfType(tasks, "P"), simulation_time)
        \o dynamic_instances(tasks, OfType(tasks, "D"))
        \o aperiodic_instances(tasks, OfType(tasks, "A")))

\* ------------------------------------------------------------- scheduler.py
\* the key functions of the six select_task methods; jobs is the sequence of
\* all job records, j a job index, current_time the scheduler's clock
rm_key(jobs, tasks, j) ==
    IF jobs[j].type \in {"P", "D"} THEN tasks[jobs[j].task].period ELSE Infinity
dm_key(jobs, tasks, j) ==
    IF jobs[j].type \in {"P", "D"} THEN tasks[jobs[j].task].deadline ELSE Infinity
edf_key_release(jobs, j) == jobs[j].current_release
edf_key(jobs, j) == jobs[j].abs_deadline
fcfs_key_latest(jobs, j) == 0 - jobs[j].current_release
fcfs_key(jobs, j) == jobs[j].current_release
sjf_key(jobs, j) == jobs[j].remaining
lst_key(jobs, j, current_time) ==
    jobs[j].abs_deadline - current_time - jobs[j].remaining

policy_key(policy, jobs, tasks, j, current_time) ==
    CASE policy = "RM" -> rm_key(jobs, tasks, j)
      [] policy = "DM" -> dm_key(jobs, tasks, j)
      [] policy = "EDF" -> edf_key(jobs, j)
      [] policy = "FCFS" -> fcfs_key(jobs, j)
      [] policy = "SJF" -> sjf_key(jobs, j)
      [] policy = "LST" -> lst_key(jobs, j, current_time)

select_task_last(policy, queue, jobs, tasks, current_time) ==
    IF queue = <<>> THEN NONE
    ELSE LET key(j) == policy_key(policy, jobs, tasks, j, current_time)
             i == CHOOSE i \in 1..Len(queue) :
                      /\ \A k \in 1..Len(queue) : key(queue[i]) <= key(queue[k])
                      /\ \A k \in (i + 1)..Len(queue) : key(queue[k]) > key(queue[i])
         IN  queue[i]
\* Scheduler.select_task for each policy: NONE for an empty queue, else
\* min(ready_queue, key=...), the first element whose key is minimal
select_task(policy, queue, jobs, tasks, current_time) ==
    IF queue = <<>> THEN NONE
    ELSE LET key(j) == policy_key(policy, jobs, tasks, j, current_time)
             i == CHOOSE i \in 1..Len(queue) :
                      /\ \A k \in 1..Len(queue) : key(queue[i]) <= key(queue[k])
                      /\ \A k \in 1..(i - 1) : key(queue[k]) > key(queue[i])
         IN  queue[i]

\* ------------------------------------------------------ aperiodic_server.py
\* AperiodicServer.__init__ and the subclass constructors; kind is one of
\* "Background", "Polling", "Deferrable", "Sporadic"
new_server(kind, capacity, period) ==
    [kind |-> kind, capacity |-> capacity, period |-> period,
     current_capacity |-> capacity, last_replenishment_time |-> 0,
     is_active |-> FALSE, replenishment_queue |-> <<>>]

\* AperiodicServer.reset with the overrides of Deferrable and Sporadic
server_reset(srv) ==
    [srv EXCEPT !.current_capacity = srv.capacity,
                !.last_replenishment_time = 0,
                !.is_active = IF srv.kind = "Deferrable" THEN FALSE ELSE @,
                !.replenishment_queue = IF srv.kind = "Sporadic" THEN <<>> ELSE @]

RECURSIVE apply_replenishments(_, _, _, _)
\* the for loop of _process_replenishments: the capacity after applying the
\* due entries of queue in order
apply_replenishments(queue, capacity, current_capacity, current_time) ==
    IF queue = <<>> THEN current_capacity
    ELSE apply_replenishments(Tail(queue), capacity,
            IF Head(queue)[1] <= current_time
            THEN Min(capacity, current_capacity + Head(queue)[2])
            ELSE current_capacity,
            current_time)

process_replenishments_late(srv, current_time) ==
    [srv EXCEPT
        !.current_capacity = apply_replenishments(srv.replenishment_queue,
            srv.capacity, srv.current_capacity, current_time - 1),
        !.replenishment_queue = SelectSeq(srv.replenishment_queue,
            LAMBDA e : e[1] > current_time - 1)]
\* SporadicServer._process_replenishments
process_replenishments(srv, current_time) ==
    [srv EXCEPT
        !.current_capacity = apply_replenishments(srv.replenishment_queue,
            srv.capacity, srv.current_capacity, current_time),
        !.replenishment_queue = SelectSeq(srv.replenishment_queue,
            LAMBDA e : e[1] > current_time)]

periodic_replenish_strict(srv, current_time) ==
    IF current_time - srv.last_replenishment_time > srv.period
    THEN [srv EXCEPT !.current_capacity = srv.capacity,
                     !.last_replenishment_time = current_time,
                     !.is_active = IF srv.kind = "Deferrable" THEN FALSE ELSE @]
    ELSE srv
\* PollingServer.replenish / DeferrableServer.replenish
periodic_replenish(srv, current_time) ==
    IF current_time - srv.last_replenishment_time >= srv.period
    THEN [srv EXCEPT !.current_capacity = srv.capacity,
                     !.last_replenishment_time = current_time,
                     !.is_active = IF srv.kind = "Deferrable" THEN FALSE ELSE @]
    ELSE srv

\* replenish of the four servers: the server after the call
replenish(srv, current_time) ==
    CASE srv.kind = "Background" -> srv
      [] srv.kind \in {"Polling", "Deferrable"} -> periodic_replenish(srv, current_time)
      [] srv.kind = "Sporadic" -> process_replenishments(srv, current_time)

\* can_serve of the four servers: the server after the call
after_can_serve(srv, current_time) ==
    IF srv.kind = "Sporadic" THEN process_replenishments(srv, current_time) ELSE srv

\* can_serve of the four servers: the value returned
can_serve(srv, current_time) ==
    IF srv.kind = "Background" THEN TRUE
    ELSE after_can_serve(srv, current_time).current_capacity > 0

budget_consume_unclamped(srv, execution_time) ==
    [srv EXCEPT !.current_capacity = srv.current_capacity - execution_time,
                !.is_active = IF srv.kind = "Deferrable" THEN TRUE ELSE @]
\* PollingServer.consume / DeferrableServer.consume
budget_consume(srv, execution_time) ==
    [srv EXCEPT !.current_capacity = Max(0, srv.current_capacity - execution_time),
                !.is_active = IF srv.kind = "Deferrable" THEN TRUE ELSE @]

sporadic_consume_whole(srv, execution_time, current_time) ==
    LET consumed == Min(execution_time, srv.current_capacity)
    IN  IF consumed > 0
        THEN [srv EXCEPT !.current_capacity = @ - consumed,
                         !.replenishment_queue =
                            Append(@, <<current_time + srv.period, execution_time>>)]
        ELSE srv
sporadic_consume_free(srv, execution_time, current_time) ==
    LET consumed == Min(execution_time, srv.current_capacity)
    IN  IF consumed > 0
        THEN [srv EXCEPT !.replenishment_queue =
                            Append(@, <<current_time + srv.period, consumed>>)]
        ELSE srv
\* SporadicServer.consume
sporadic_consume(srv, execution_time, current_time) ==
    LET consumed == Min(execution_time, srv.current_capacity)
    IN  IF consumed > 0
        THEN [srv EXCEPT !.current_capacity = @ - consumed,
                         !.replenishment_queue =
                            Append(@, <<current_time + srv.period, consumed>>)]
        ELSE srv

\* consume of the four servers: the server after the call
consume(srv, execution_time, current_time) ==
    CASE srv.kind = "Background" -> srv
      [] srv.kind \in {"Polling", "Deferrable"} -> budget_consume(srv, execution_time)
      [] srv.kind = "Sporadic" -> sporadic_consume(srv, execution_time, current_time)

\* ---------------------------------------------------------------- scenarios
\* A scenario is what the caller supplies: the task set, the policy, the
\* server and the SimulationConfig.
Scenario(tasks, policy, srv, simulation_time, time_quantum, preemptive, context_switch_overhead, unit) ==
    [tasks |-> tasks, policy |-> policy, server |-> srv,
     simulation_time |-> simulation_time, time_quantum |-> time_quantum,
     preemptive |-> preemptive,
     context_switch_overhead |-> context_switch_overhead, unit |-> unit]

Background == [kind |-> "Background", capacity |-> 0, period |-> 0]

TasksA == <<Task("P", 1, 4, 0, 0), Task("P", 2, 6, 0, 0)>>
ScenarioA == Scenario(TasksA, "RM", Background, 24, 1, TRUE, 0, "one")
ScenarioB == Scenario(TasksA, "EDF", Background, 24, 1, TRUE, 0, "one")
ScenarioC ==
    Scenario(<<Task("P", 1, 3, 0, 0), Task("A", 1, 0, 0, 1)>>, "RM",
             [kind |-> "Sporadic", capacity |-> 2, period |-> 5],
             8, 1, TRUE, 0, "one")
ScenarioD == Scenario(<<Task("P", 3, 2, 0, 0)>>, "RM", Background, 12, 1, TRUE, 0, "one")
NamedScenarios == {ScenarioA, ScenarioB, ScenarioC, ScenarioD}

Policies == {"RM", "DM", "EDF", "FCFS", "SJF", "LST"}
Periods == {2, 3}
Releases == {0, 1}
\* deadline-bearing tasks: periodic with a short deadline or a late first
\* release, and dynamic
HardPool ==
    {Task("P", e, p, dr[1], dr[2]) :
        e \in 1..MaxExec, p \in Periods,
        dr \in {<<0, r>> : r \in Releases} \cup {<<1, 0>>}}
    \cup {Task("D", e, p, 0, 0) : e \in 1..MaxExec, p \in Periods}
    \cup {Task("D", 1, p, 0, 1) : p \in Periods}
AperiodicPool == {Task("A", e, 0, 0, r) : e \in 1..MaxExec, r \in Releases}
TaskPool == HardPool \cup AperiodicPool
TaskSets ==
    {<<a>> : a \in TaskPool}
    \cup {<<a, b>> : a \in HardPool, b \in TaskPool}
    \cup {<<a, b>> : a \in AperiodicPool, b \in AperiodicPool}
BudgetServers ==
    {[kind |-> k, capacity |-> c, period |-> 2] :
        k \in {"Polling", "Deferrable", "Sporadic"}, c \in {1, 2}}
HasAperiodic(tasks) == \E i \in 1..Len(tasks) : tasks[i].type = "A"
\* time quantum, preemptive, context switch overhead, time unit
BaseConfig == <<1, TRUE, 0, "one">>
OtherConfigs ==
    {<<1, FALSE, 0, "one">>, <<1, TRUE, 1, "one">>,
     <<2, TRUE, 0, "one">>, <<1, TRUE, 0, "nano">>}
\* policy and configuration
Runs ==
    {<<pol, BaseConfig>> : pol \in Policies}
    \cup {<<pol, c>> : pol \in {"RM", "EDF", "FCFS"}, c \in OtherConfigs}
BudgetRuns ==
    {<<pol, BaseConfig>> : pol \in Policies}
    \cup {<<"RM", c>> : c \in OtherConfigs}
GenericScenarios ==
    {Scenario(ts, r[1], Background, GenHorizon, r[2][1], r[2][2], r[2][3], r[2][4]) :
        ts \in TaskSets, r \in Runs}
    \cup
    {Scenario(ts, r[1], srv, GenHorizon, r[2][1], r[2][2], r[2][3], r[2][4]) :
        ts \in {t \in TaskSets : HasAperiodic(t)}, srv \in BudgetServers,
        r \in BudgetRuns}
Scenarios == NamedScenarios \cup GenericScenarios

\* -------------------------------------------------------------------- state
VARIABLES
    scn,               \* the caller's inputs
    pc,                \* position: "new", "loaded", the loop phases, "done"
    task_instances,    \* Simulator.task_instances (the Job objects)
    ready_queue,       \* Simulator.ready_queue, indices into task_instances
    current_task,      \* Simulator.current_task, a job index or NONE
    current_time,      \* the local current_time of run()
    sched_time,        \* Scheduler.current_time
    schedule_events,   \* Scheduler.schedule_events
    completed_tasks,   \* Scheduler.completed_tasks
    missed_deadlines,  \* Scheduler.missed_deadlines
    server,            \* Simulator.aperiodic_server
    run_no,            \* number of calls of run() so far
    first_log,         \* the event log of the first completed run
    call,              \* the last direct call of a server method
    made,              \* the last call of a factory and what it gave
    generating         \* the for and while loops of _generate_task_instances

vars == <<scn, pc, task_instances, ready_queue, current_task, current_time,
          sched_time, schedule_events, completed_tasks, missed_deadlines,
          server, run_no, first_log, call, made, generating>>

ScheduleEvent_at_zero(time, task, event_type) ==
    [time |-> 0, task |-> task, event_type |-> event_type]
ScheduleEvent(time, task, event_type) ==
    [time |-> time, task |-> task, event_type |-> event_type]

InSeq(x, s) == \E i \in 1..Len(s) : s[i] = x

remove_nothing(queue, x) == queue
\* list.remove(x): drop the first occurrence
remove(queue, x) ==
    IF InSeq(x, queue)
    THEN LET i == CHOOSE i \in 1..Len(queue) :
                      queue[i] = x /\ \A k \in 1..(i - 1) : queue[k] # x
         IN  SubSeq(queue, 1, i - 1) \o SubSeq(queue, i + 1, Len(queue))
    ELSE queue

\* ------------------------------------------------------------ the factories
\* str.upper() on the spellings given to the factories: each pair is a
\* spelling and its upper-case form
Spellings ==
    {<<"", "">>,
     <<"RM", "RM">>, <<"rm", "RM">>, <<"Rm", "RM">>,
     <<"RATE_MONOTONIC", "RATE_MONOTONIC">>,
     <<"rate_monotonic", "RATE_MONOTONIC">>,
     <<"Rate_monotonic", "RATE_MONOTONIC">>, <<"EDF", "EDF">>,
     <<"edf", "EDF">>, <<"Edf", "EDF">>,
     <<"EARLIEST_DEADLINE_FIRST", "EARLIEST_DEADLINE_FIRST">>,
     <<"earliest_deadline_first", "EARLIEST_DEADLINE_FIRST">>,
     <<"Earliest_deadline_first", "EARLIEST_DEADLINE_FIRST">>,
     <<"DM", "DM">>, <<"dm", "DM">>, <<"Dm", "DM">>,
     <<"DEADLINE_MONOTONIC", "DEADLINE_MONOTONIC">>,
     <<"deadline_monotonic", "DEADLINE_MONOTONIC">>,
     <<"Deadline_monotonic", "DEADLINE_MONOTONIC">>, <<"FCFS", "FCFS">>,
     <<"fcfs", "FCFS">>, <<"Fcfs", "FCFS">>, <<"FIFO", "FIFO">>,
     <<"fifo", "FIFO">>, <<"Fifo", "FIFO">>, <<"SJF", "SJF">>,
     <<"sjf", "SJF">>, <<"Sjf", "SJF">>,
     <<"SHORTEST_JOB_FIRST", "SHORTEST_JOB_FIRST">>,
     <<"shortest_job_first", "SHORTEST_JOB_FIRST">>,
     <<"Shortest_job_first", "SHORTEST_JOB_FIRST">>, <<"LST", "LST">>,
     <<"lst", "LST">>, <<"Lst", "LST">>,
     <<"LEAST_SLACK_TIME", "LEAST_SLACK_TIME">>,
     <<"least_slack_time", "LEAST_SLACK_TIME">>,
     <<"Least_slack_time", "LEAST_SLACK_TIME">>, <<"RR", "RR">>,
     <<"rr", "RR">>, <<"Rr", "RR">>, <<"RMS", "RMS">>, <<"rms", "RMS">>,
     <<"Rms", "RMS">>, <<"PRIORITY", "PRIORITY">>,
     <<"priority", "PRIORITY">>, <<"Priority", "PRIORITY">>,
     <<"BACKGROUND", "BACKGROUND">>, <<"background", "BACKGROUND">>,
     <<"Background", "BACKGROUND">>, <<"POLLING", "POLLING">>,
     <<"polling", "POLLING">>, <<"Polling", "POLLING">>,
     <<"DEFERRABLE", "DEFERRABLE">>, <<"deferrable", "DEFERRABLE">>,
     <<"Deferrable", "DEFERRABLE">>, <<"SPORADIC", "SPORADIC">>,
     <<"sporadic", "SPORADIC">>, <<"Sporadic", "SPORADIC">>,
     <<"SERVER", "SERVER">>, <<"server", "SERVER">>, <<"Server", "SERVER">>,
     <<"POLLING_SERVER", "POLLING_SERVER">>,
     <<"polling_server", "POLLING_SERVER">>,
     <<"Polling_server", "POLLING_SERVER">>}
upper_unchanged(name) == name
upper(name) == (CHOOSE sp \in Spellings : sp[1] = name)[2]

Raised(error) == [raised |-> TRUE, error |-> error, object |-> "none"]
Returned(object) == [raised |-> FALSE, error |-> "none", object |-> object]

\* SchedulerFactory.create_scheduler; a scheduler object is its policy
create_scheduler(scheduler_type) ==
    LET t == upper(scheduler_type)
    IN  IF t \in {"RM", "RATE_MONOTONIC"} THEN Returned("RM")
        ELSE IF t \in {"EDF", "EARLIEST_DEADLINE_FIRST"} THEN Returned("EDF")
        ELSE IF t \in {"DM", "DEADLINE_MONOTONIC"} THEN Returned("DM")
        ELSE IF t \in {"FCFS", "FIFO"} THEN Returned("FCFS")
        ELSE IF t \in {"SJF", "SHORTEST_JOB_FIRST"} THEN Returned("SJF")
        ELSE IF t \in {"LST", "LEAST_SLACK_TIME"} THEN Returned("LST")
        ELSE Raised("ValueError")

\* ServerFactory.create_server
create_server(server_type, capacity, period) ==
    LET t == upper(server_type)
    IN  IF t = "BACKGROUND" THEN Returned(new_server("Background", 0, 0))
        ELSE IF t = "POLLING"
        THEN IF capacity <= 0 \/ period <= 0 THEN Raised("ValueError")
             ELSE Returned(new_server("Polling", capacity, period))
        ELSE IF t = "DEFERRABLE"
        THEN IF capacity <= 0 \/ period <= 0 THEN Raised("ValueError")
             ELSE Returned(new_server("Deferrable", capacity, period))
        ELSE IF t = "SPORADIC"
        THEN IF capacity <= 0 \/ period <= 0 THEN Raised("ValueError")
             ELSE Returned(new_server("Sporadic", capacity, period))
        ELSE Raised("ValueError")

\* a call of a factory with its arguments and its outcome
FactoryCall(op, name, capacity, period, result) ==
    [op |-> op, name |-> name, capacity |-> capacity, period |-> period,
     result |-> result]
NotMade == FactoryCall("none", "", 0, 0, Raised("none"))

\* the position in _generate_task_instances: the number of the periodic task
\* the for loop is at, and the local release_time of its while loop
Generating(task, release_time) == [task |-> task, release_time |-> release_time]
NotGenerating == Generating(0, 0)

\* the last direct call of a server method, and the last consumption a
\* Sporadic server was asked for within its capacity: its time, its amount
\* and whether a later can_serve or replenish call came at or after time +
\* period
NoConsumption == [time |-> NoTime, amount |-> 0, returned |-> TRUE]
ServerCall(op, time, amount, consumed) ==
    [op |-> op, time |-> time, amount |-> amount, consumed |-> consumed]
NoCall == ServerCall("none", 0, 0, NoConsumption)

\* Simulator.__init__ with a fresh Scheduler and server
Constructed(scenarios) ==
    /\ scn \in scenarios
    /\ pc = "new"
    /\ task_instances = <<>>
    /\ ready_queue = <<>>
    /\ current_task = NONE
    /\ current_time = 0
    /\ sched_time = 0
    /\ schedule_events = <<>>
    /\ completed_tasks = <<>>
    /\ missed_deadlines = <<>>
    /\ server = new_server(scn.server.kind, scn.server.capacity, scn.server.period)
    /\ run_no = 0
    /\ first_log = <<>>
    /\ call = NoCall
    /\ made = NotMade
    /\ generating = NotGenerating

Init == Constructed(Scenarios)

\* Simulator.load_task_set
LoadTaskSet ==
    /\ pc = "new"
    /\ task_instances' = generate_task_instances(scn.tasks, scn.simulation_time)
    /\ pc' = "loaded"
    /\ UNCHANGED <<scn, call, made, generating, ready_queue, current_task, current_time, sched_time,
                   schedule_events, completed_tasks, missed_deadlines, server,
                   run_no, first_log>>

\* Simulator.run up to the loop: Scheduler.reset and the initial event
RunBegin ==
    /\ pc = "loaded"
    /\ sched_time' = 0
    /\ schedule_events' = <<ScheduleEvent(0, NONE, "START")>>
    /\ completed_tasks' = <<>>
    /\ missed_deadlines' = <<>>
    /\ ready_queue' = <<>>
    /\ current_task' = NONE
    /\ current_time' = 0
    /\ run_no' = run_no + 1
    /\ pc' = "arrivals"
    /\ UNCHANGED <<scn, call, made, generating, task_instances, server, first_log>>

arrived_twice(jobs, queue, completed, missed, unit, time) ==
    SelectSeq([i \in 1..Len(jobs) |-> i],
              LAMBDA j : /\ jobs[j].current_release <= time
                         /\ ~is_complete(jobs[j], unit)
                         /\ ~InSeq(j, completed)
                         /\ ~InSeq(j, missed))
arrived_again(jobs, queue, completed, missed, unit, time) ==
    SelectSeq([i \in 1..Len(jobs) |-> i],
              LAMBDA j : /\ jobs[j].current_release <= time
                         /\ ~InSeq(j, queue)
                         /\ ~is_complete(jobs[j], unit)
                         /\ ~InSeq(j, completed))
\* the list comprehension of _check_arrivals
arrived(jobs, queue, completed, missed, unit, time) ==
    SelectSeq([i \in 1..Len(jobs) |-> i],
              LAMBDA j : /\ jobs[j].current_release <= time
                         /\ ~InSeq(j, queue)
                         /\ ~is_complete(jobs[j], unit)
                         /\ ~InSeq(j, completed)
                         /\ ~InSeq(j, missed))

\* Simulator._check_arrivals
CheckArrivals ==
    /\ pc = "arrivals"
    /\ current_time < scn.simulation_time
    /\ LET new == arrived(task_instances, ready_queue, completed_tasks,
                          missed_deadlines, scn.unit, current_time)
       IN  /\ ready_queue' = ready_queue \o new
           /\ schedule_events' = schedule_events \o
                [i \in 1..Len(new) |-> ScheduleEvent(current_time, new[i], "ARRIVAL")]
    /\ pc' = "deadlines"
    /\ UNCHANGED <<scn, call, made, generating, task_instances, current_task, current_time, sched_time,
                   completed_tasks, missed_deadlines, server, run_no, first_log>>

RECURSIVE miss_loop(_, _, _, _, _)
\* the for loop of _check_deadline_misses over a copy of the ready queue;
\* st holds ready_queue, missed_deadlines, schedule_events, current_task
miss_loop(copy, st, jobs, unit, time) ==
    IF copy = <<>> THEN st
    ELSE LET task == Head(copy)
         IN  miss_loop(Tail(copy),
                 IF is_deadline_missed(jobs[task], unit, time)
                 THEN [rq |-> remove(st.rq, task),
                       md |-> Append(st.md, task),
                       ev |-> Append(st.ev, ScheduleEvent(time, task, "DEADLINE_MISS")),
                       ct |-> IF st.ct = task THEN NONE ELSE st.ct]
                 ELSE st,
                 jobs, unit, time)

\* Simulator._check_deadline_misses
CheckDeadlineMisses ==
    /\ pc = "deadlines"
    /\ LET st == miss_loop(ready_queue,
                     [rq |-> ready_queue, md |-> missed_deadlines,
                      ev |-> schedule_events, ct |-> current_task],
                     task_instances, scn.unit, current_time)
       IN  /\ ready_queue' = st.rq
           /\ missed_deadlines' = st.md
           /\ schedule_events' = st.ev
           /\ current_task' = st.ct
    /\ pc' = "replenish"
    /\ UNCHANGED <<scn, call, made, generating, task_instances, current_time, sched_time,
                   completed_tasks, server, run_no, first_log>>

\* run(): self.aperiodic_server.replenish(current_time)
Replenish ==
    /\ pc = "replenish"
    /\ server' = replenish(server, current_time)
    /\ pc' = "select"
    /\ UNCHANGED <<scn, call, made, generating, task_instances, ready_queue, current_task, current_time,
                   sched_time, schedule_events, completed_tasks,
                   missed_deadlines, run_no, first_log>>

periodic_ready == SelectSeq(ready_queue, LAMBDA j : task_instances[j].type # "A")
aperiodic_ready == SelectSeq(ready_queue, LAMBDA j : task_instances[j].type = "A")

next_task_unserved ==
    IF periodic_ready # <<>>
    THEN select_task(scn.policy, periodic_ready, task_instances, scn.tasks, sched_time)
    ELSE IF aperiodic_ready # <<>>
         THEN select_task(scn.policy, aperiodic_ready, task_instances, scn.tasks, sched_time)
         ELSE NONE
\* run(): the selection of next_task (lines 93-102)
next_task ==
    IF periodic_ready # <<>>
    THEN select_task(scn.policy, periodic_ready, task_instances, scn.tasks, sched_time)
    ELSE IF aperiodic_ready # <<>> /\ can_serve(server, current_time)
         THEN select_task(scn.policy, aperiodic_ready, task_instances, scn.tasks, sched_time)
         ELSE NONE

server_after_select_ticking ==
    IF server.kind = "Background" THEN server
    ELSE [server EXCEPT !.current_capacity = Max(0, @ - scn.time_quantum)]
\* the server after the selection: can_serve is called only when no
\* periodic job is ready and an aperiodic job is
server_after_select ==
    IF periodic_ready = <<>> /\ aperiodic_ready # <<>>
    THEN after_can_serve(server, current_time)
    ELSE server

AppendIf_never(cond, s, e) == s
AppendIf_always(cond, s, e) == Append(s, e)
AppendIf(cond, s, e) == IF cond THEN Append(s, e) ELSE s

\* run(): the branch "if next_task" (lines 105-154)
Dispatch ==
    /\ pc = "select"
    /\ next_task # NONE
    /\ LET nt == next_task
           preempt == current_task # NONE /\ current_task # nt /\ scn.preemptive
           ev1 == AppendIf(preempt, schedule_events,
                           ScheduleEvent(current_time, current_task, "PREEMPT"))
           jobs1 == IF preempt
                    THEN [task_instances EXCEPT ![current_task].preemption_count = @ + 1]
                    ELSE task_instances
           switch == current_task # nt
           overhead == switch /\ current_task # NONE /\ scn.context_switch_overhead > 0
           t1 == IF overhead THEN current_time + scn.context_switch_overhead
                 ELSE current_time
           ev2 == AppendIf(overhead, ev1, ScheduleEvent(t1, NONE, "CONTEXT_SWITCH"))
           first == switch /\ jobs1[nt].start_time = NoTime
           jobs2 == IF first THEN [jobs1 EXCEPT ![nt].start_time = t1] ELSE jobs1
           ev3 == AppendIf(first, ev2, ScheduleEvent(t1, nt, "START"))
           execution_time == Min(scn.time_quantum, jobs2[nt].remaining)
           jobs3 == [jobs2 EXCEPT ![nt] = execute(@, execution_time)]
           srv1 == server_after_select
           srv2 == IF jobs3[nt].type = "A" THEN consume(srv1, execution_time, t1)
                   ELSE srv1
           t2 == t1 + execution_time
           complete == is_complete(jobs3[nt], scn.unit)
       IN  /\ server' = srv2
           /\ current_time' = t2
           /\ sched_time' = t2
           /\ IF complete
              THEN /\ task_instances' = [jobs3 EXCEPT ![nt].completion_time = t2]
                   /\ ready_queue' = remove(ready_queue, nt)
                   /\ completed_tasks' = Append(completed_tasks, nt)
                   /\ schedule_events' = Append(ev3, ScheduleEvent(t2, nt, "COMPLETE"))
                   /\ current_task' = NONE
              ELSE /\ task_instances' = jobs3
                   /\ ready_queue' = ready_queue
                   /\ completed_tasks' = completed_tasks
                   /\ schedule_events' = ev3
                   /\ current_task' = nt
    /\ pc' = "arrivals"
    /\ UNCHANGED <<scn, call, made, generating, missed_deadlines, run_no, first_log>>

\* Simulator._find_next_event_time: the loop lowers next_time to each later
\* release that is below it, in the order of task_instances
RECURSIVE next_event_loop(_, _, _, _, _, _)
next_event_loop(js, next_time, jobs, queue, completed, time) ==
    IF js = <<>> THEN next_time
    ELSE LET j == Head(js)
         IN  next_event_loop(Tail(js),
                 IF /\ jobs[j].current_release > time
                    /\ jobs[j].current_release < next_time
                    /\ ~InSeq(j, queue) /\ ~InSeq(j, completed)
                 THEN jobs[j].current_release
                 ELSE next_time,
                 jobs, queue, completed, time)

find_next_event_time(jobs, queue, completed, simulation_time, time) ==
    next_event_loop([i \in 1..Len(jobs) |-> i], simulation_time, jobs, queue,
                    completed, time)

\* run(): the idle branch (lines 156-172)
Idle ==
    /\ pc = "select"
    /\ next_task = NONE
    /\ current_task' = NONE
    /\ LET next_event_time ==
               find_next_event_time(task_instances, ready_queue, completed_tasks,
                                    scn.simulation_time, current_time)
       IN  IF next_event_time > current_time
           THEN /\ schedule_events' =
                      Append(schedule_events, ScheduleEvent(current_time, NONE, "IDLE"))
                /\ current_time' = next_event_time
                /\ sched_time' = next_event_time
           ELSE /\ schedule_events' = schedule_events
                /\ current_time' = current_time + scn.time_quantum
                /\ sched_time' = current_time + scn.time_quantum
    /\ server' = server_after_select
    /\ pc' = "arrivals"
    /\ UNCHANGED <<scn, call, made, generating, task_instances, ready_queue, completed_tasks,
                   missed_deadlines, run_no, first_log>>

\* run(): loop exit, the final event and get_statistics
RunEnd ==
    /\ pc = "arrivals"
    /\ ~(current_time < scn.simulation_time)
    /\ schedule_events' = Append(schedule_events, ScheduleEvent(current_time, NONE, "END"))
    /\ first_log' = IF run_no = 1 THEN schedule_events' ELSE first_log
    /\ pc' = "done"
    /\ UNCHANGED <<scn, call, made, generating, task_instances, ready_queue, current_task, current_time,
                   sched_time, completed_tasks, missed_deadlines, server, run_no>>

Next ==
    \/ LoadTaskSet
    \/ RunBegin
    \/ CheckArrivals
    \/ CheckDeadlineMisses
    \/ Replenish
    \/ Dispatch
    \/ Idle
    \/ RunEnd

Spec == Init /\ [][Next]_vars

\* the steps of run(): once called, the loop keeps taking its next step
RunStep ==
    \/ RunBegin
    \/ CheckArrivals
    \/ CheckDeadlineMisses
    \/ Replenish
    \/ Dispatch
    \/ Idle
    \/ RunEnd

\* termination is followed on the named scenarios and on the Rate Monotonic
\* runs of a periodic or dynamic task with an aperiodic task released at 1
FairScenarios ==
    NamedScenarios
    \cup {s \in Scenarios : /\ Len(s.tasks) = 2
                            /\ s.tasks[2].type = "A"
                            /\ s.tasks[2].release_time = 1
                            /\ s.policy = "RM"}
InitFair == Constructed(FairScenarios)
SpecFair == InitFair /\ [][Next]_vars /\ WF_vars(RunStep)

\* Scheduler.get_statistics
statistics ==
    [total_tasks |-> Len(completed_tasks) + Len(missed_deadlines),
     completed_tasks |-> Len(completed_tasks),
     missed_deadlines |-> Len(missed_deadlines),
     total_time |-> sched_time]

\* utilizations are exact fractions over one denominator, the product of the
\* periods of the tasks counted
RECURSIVE period_product(_, _)
period_product(tasks, tis) ==
    IF tis = <<>> THEN 1
    ELSE tasks[Head(tis)].period * period_product(tasks, Tail(tis))

RECURSIVE utilization(_, _, _)
\* the loops "util += task.execution_time / task.period", as a numerator
utilization(tasks, tis, denominator) ==
    IF tis = <<>> THEN 0
    ELSE tasks[Head(tis)].execution_time * (denominator \div tasks[Head(tis)].period)
         + utilization(tasks, Tail(tis), denominator)

\* util <= Simulator._rm_bound(n), for util = numerator / denominator:
\* _rm_bound(0) = 1.0, and u <= n * (2^(1/n) - 1) iff (1 + u/n)^n <= 2
within_rm_bound(numerator, denominator, n) ==
    IF n = 0 THEN numerator <= denominator
    ELSE (n * denominator + numerator) ^ n <= 2 * (n * denominator) ^ n

\* Simulator.calculate_utilization
calculate_utilization(tasks) ==
    LET periodic_tasks == OfType(tasks, "P")
        dynamic_tasks == OfType(tasks, "D")
        denominator == period_product(tasks, periodic_tasks \o dynamic_tasks)
        periodic_util == utilization(tasks, periodic_tasks, denominator)
        dynamic_util == utilization(tasks, dynamic_tasks, denominator)
        total_util == periodic_util + dynamic_util
    IN  [denominator |-> denominator,
         periodic_utilization |-> periodic_util,
         dynamic_utilization |-> dynamic_util,
         total_utilization |-> total_util,
         schedulable_rm |-> within_rm_bound(periodic_util, denominator,
                                            Len(periodic_tasks)),
         schedulable_edf |-> total_util <= denominator]

\* ----------------------------------------------------- running a second time
\* the caller resets the scheduler and the server after a completed run and
\* calls run() again: Scheduler.reset and AperiodicServer.reset
Reset ==
    /\ pc = "done"
    /\ run_no < MaxRuns
    /\ sched_time' = 0
    /\ schedule_events' = <<>>
    /\ completed_tasks' = <<>>
    /\ missed_deadlines' = <<>>
    /\ server' = server_reset(server)
    /\ pc' = "loaded"
    /\ UNCHANGED <<scn, call, made, generating, task_instances, ready_queue, current_task, current_time,
                   run_no, first_log>>

InitRerun == Constructed(NamedScenarios)

NextRerun ==
    \/ LoadTaskSet
    \/ RunBegin
    \/ CheckArrivals
    \/ CheckDeadlineMisses
    \/ Replenish
    \/ Dispatch
    \/ Idle
    \/ RunEnd
    \/ Reset

SpecRerun == InitRerun /\ [][NextRerun]_vars

\* ------------------------------------------------- a server called directly
\* A Polling, Deferrable or Sporadic server made by ServerFactory.create_server
\* with positive capacity and period, and called in any order with any times
\* and non-negative amounts.
ServerScenarios ==
    {Scenario(<<>>, "RM", [kind |-> k, capacity |-> c, period |-> p], GenHorizon, 1, TRUE, 0, "one") :
        k \in {"Polling", "Deferrable", "Sporadic"}, c \in {1, 2}, p \in {2, 3}}

InitServer ==
    /\ Constructed(ServerScenarios)
    /\ server.capacity > 0 /\ server.period > 0

ServerFrame ==
    UNCHANGED <<scn, made, generating, pc, task_instances, ready_queue, current_task, current_time,
                sched_time, schedule_events, completed_tasks, missed_deadlines,
                run_no, first_log>>

\* the last consumption after a can_serve or replenish call at time t
consumption_seen(t) ==
    IF call.consumed.time # NoTime /\ t >= call.consumed.time + server.period
    THEN [call.consumed EXCEPT !.returned = TRUE]
    ELSE call.consumed

\* the last consumption after consume(x, t)
consumption_made(x, t) ==
    IF server.kind # "Sporadic" \/ Min(x, server.current_capacity) <= 0
    THEN call.consumed
    ELSE IF x <= server.current_capacity
         THEN [time |-> t, amount |-> x, returned |-> FALSE]
         ELSE NoConsumption

\* server.can_serve(t)
CallCanServe ==
    \E t \in 0..MaxCallTime :
        /\ server' = after_can_serve(server, t)
        /\ call' = ServerCall("can_serve", t, 0, consumption_seen(t))
        /\ ServerFrame

\* server.replenish(t)
CallReplenish ==
    \E t \in 0..MaxCallTime :
        /\ server' = replenish(server, t)
        /\ call' = ServerCall("replenish", t, 0, consumption_seen(t))
        /\ ServerFrame

\* server.consume(x, t)
CallConsume ==
    \E t \in 0..MaxCallTime : \E x \in 0..MaxAmount :
        /\ server' = consume(server, x, t)
        /\ call' = ServerCall("consume", t, x, consumption_made(x, t))
        /\ ServerFrame

\* server.reset()
CallReset ==
    /\ server' = server_reset(server)
    /\ call' = ServerCall("reset", 0, 0, call.consumed)
    /\ ServerFrame

NextServer ==
    \/ CallCanServe
    \/ CallReplenish
    \/ CallConsume
    \/ CallReset

SpecServer == InitServer /\ [][NextServer]_vars

\* ------------------------------------------------- construction by name
SchedulerNames == {sp[1] : sp \in {x \in Spellings : x[2] \in {"", "RM", "RATE_MONOTONIC", "EDF", "EARLIEST_DEADLINE_FIRST", "DM", "DEADLINE_MONOTONIC", "FCFS", "FIFO", "SJF", "SHORTEST_JOB_FIRST", "LST", "LEAST_SLACK_TIME", "RR", "RMS", "PRIORITY"}}}
ServerNames == {sp[1] : sp \in {x \in Spellings : x[2] \in {"", "BACKGROUND", "POLLING", "DEFERRABLE", "SPORADIC", "SERVER", "POLLING_SERVER"}}}
ServerParameters == {0 - 1, 0, 1, 2}

InitFactory == Constructed({ScenarioA})

FactoryFrame ==
    UNCHANGED <<scn, call, generating, pc, task_instances, ready_queue, current_task,
                current_time, sched_time, schedule_events, completed_tasks,
                missed_deadlines, server, run_no, first_log>>

\* SchedulerFactory.create_scheduler(name)
CreateScheduler ==
    \E name \in SchedulerNames :
        /\ made' = FactoryCall("create_scheduler", name, 0, 0, create_scheduler(name))
        /\ FactoryFrame

\* ServerFactory.create_server(name, capacity, period)
CreateServer ==
    \E name \in ServerNames : \E capacity, period \in ServerParameters :
        /\ made' = FactoryCall("create_server", name, capacity, period,
                               create_server(name, capacity, period))
        /\ FactoryFrame

NextFactory ==
    \/ CreateScheduler
    \/ CreateServer

SpecFactory == InitFactory /\ [][NextFactory]_vars

\* ------------------------------------------ configurations outside the domain
\* SimulationConfig stores whatever it is given: runs with simulation_time
\* <= 0, and runs with time_quantum 0
UncheckedScenarios ==
    {Scenario(ts, pol, Background, h, 1, TRUE, 0, "one") :
        ts \in TaskSets, pol \in {"RM", "EDF"}, h \in {0 - 1, 0}}
    \cup
    {Scenario(ts, pol, Background, GenHorizon, 0, TRUE, 0, "one") :
        ts \in TaskSets, pol \in {"RM", "EDF"}}

InitUnchecked == Constructed(UncheckedScenarios)
SpecUnchecked == InitUnchecked /\ [][Next]_vars

\* ------------------------------------------- load_task_set, loop by loop
\* _generate_task_instances one iteration at a time, for task sets that
\* validate_task_set would report: load_task_set does not call it, and the
\* parser's caller may go on after its report
UncheckedPeriods == {0 - 1, 0, 1, 2}
UnvalidatedTasks ==
    {Task("P", 1, p, 0, r) : p \in UncheckedPeriods, r \in Releases}
UnvalidatedScenarios ==
    {Scenario(ts, "RM", Background, GenHorizon, 1, TRUE, 0, "one") :
        ts \in {<<a>> : a \in UnvalidatedTasks}
               \cup {<<a, b>> : a \in UnvalidatedTasks,
                                b \in UnvalidatedTasks
                                      \cup {Task("D", 1, 2, 0, 0), Task("A", 1, 0, 0, 1)}}}
\* more jobs than any task set with positive periods gets
GeneratedCap == 2 * GenHorizon + 2

InitGenerate == Constructed(UnvalidatedScenarios)

GenerateFrame ==
    UNCHANGED <<scn, call, made, ready_queue, current_task, current_time,
                sched_time, schedule_events, completed_tasks, missed_deadlines,
                server, run_no, first_log>>

periodic_tasks == OfType(scn.tasks, "P")

\* first_release of the k-th periodic task, the initial release_time of its
\* while loop
first_release(k) ==
    IF k <= Len(periodic_tasks) THEN scn.tasks[periodic_tasks[k]].release_time
    ELSE 0

\* _generate_task_instances: the list is emptied, the for loop is entered
GenerateBegin ==
    /\ pc = "new"
    /\ task_instances' = <<>>
    /\ generating' = Generating(1, first_release(1))
    /\ pc' = "generating"
    /\ GenerateFrame

\* one iteration of "while release_time < simulation_time"
GenerateJob ==
    /\ pc = "generating"
    /\ generating.task <= Len(periodic_tasks)
    /\ generating.release_time < scn.simulation_time
    /\ Len(task_instances) < GeneratedCap
    /\ task_instances' =
           Append(task_instances,
                  Job(scn.tasks, periodic_tasks[generating.task],
                      generating.release_time))
    /\ generating' =
           [generating EXCEPT !.release_time =
                                  @ + scn.tasks[periodic_tasks[generating.task]].period]
    /\ pc' = pc
    /\ GenerateFrame

\* the while loop ends, the for loop goes to the next periodic task
NextPeriodicTask ==
    /\ pc = "generating"
    /\ generating.task <= Len(periodic_tasks)
    /\ ~(generating.release_time < scn.simulation_time)
    /\ generating' = Generating(generating.task + 1, first_release(generating.task + 1))
    /\ pc' = pc
    /\ task_instances' = task_instances
    /\ GenerateFrame

\* after the periodic tasks: the dynamic and aperiodic jobs and the sort
GenerateEnd ==
    /\ pc = "generating"
    /\ generating.task > Len(periodic_tasks)
    /\ task_instances' =
           sort_by_release(task_instances
                           \o dynamic_instances(scn.tasks, OfType(scn.tasks, "D"))
                           \o aperiodic_instances(scn.tasks, OfType(scn.tasks, "A")))
    /\ generating' = NotGenerating
    /\ pc' = "loaded"
    /\ GenerateFrame

NextGenerate ==
    \/ GenerateBegin
    \/ GenerateJob
    \/ NextPeriodicTask
    \/ GenerateEnd

\* the steps that enter, repeat and leave the loops
LoopStep ==
    \/ GenerateBegin
    \/ GenerateJob
    \/ NextPeriodicTask

SpecGenerate == InitGenerate /\ [][NextGenerate]_vars /\ WF_vars(LoopStep)

\* ------------------------------------------------------------------- claims
Range(seq) == {seq[i] : i \in 1..Len(seq)}
NoDuplicates(seq) == \A i, k \in 1..Len(seq) : seq[i] = seq[k] => i = k
CompletedOfTask(ti) ==
    Cardinality({i \in 1..Len(completed_tasks) :
                    task_instances[completed_tasks[i]].task = ti})
EventsOf(event_type) ==
    {i \in 1..Len(schedule_events) : schedule_events[i].event_type = event_type}

\* C1: Scenario A (RM, quantum 1, horizon 24, Task1 e=1 p=4, Task2 e=2 p=6)
\* ends with missed_deadlines = 0 and completed_tasks = 10, six jobs of Task1
\* and four jobs of Task2.
ScenarioA_AllCompleted ==
    (scn = ScenarioA /\ pc = "done") =>
        /\ statistics.missed_deadlines = 0
        /\ statistics.completed_tasks = 10
        /\ CompletedOfTask(1) = 6
        /\ CompletedOfTask(2) = 4

ScenarioA_Finished ==
    scn = ScenarioA /\ pc = "done" /\ Len(completed_tasks) = 10

\* C2: Scenario B (the tasks of Scenario A under EDF) ends with no missed
\* deadline: no DEADLINE_MISS event and missed_deadlines = 0.
ScenarioB_NoMiss ==
    scn = ScenarioB =>
        /\ EventsOf("DEADLINE_MISS") = {}
        /\ statistics.missed_deadlines = 0

ScenarioB_Finished ==
    scn = ScenarioB /\ pc = "done" /\ current_time = 24 /\ completed_tasks # <<>>

\* C3: Scenario D (one periodic task e=3 p=2 under RM, quantum 1, horizon 12):
\* the finished log has a DEADLINE_MISS event before the END event.
ScenarioD_MissBeforeEnd ==
    (scn = ScenarioD /\ pc = "done") =>
        \E i \in EventsOf("DEADLINE_MISS") : \E k \in EventsOf("END") : i < k

ScenarioD_Finished ==
    scn = ScenarioD /\ pc = "done" /\ missed_deadlines # <<>>

\* C4: Scenario C (Sporadic server capacity 2 period 5, aperiodic job released
\* at 1 with e=1, periodic task e=1 p=3): the aperiodic job is served at t=1,
\* the capacity is 1 from that consumption on at every step with now < 6, and
\* is 2 again once the step at now = 6 has replenished.
AperiodicJobC == CHOOSE j \in 1..Len(task_instances) : task_instances[j].type = "A"
BeforeReplenishAt6 ==
    \/ current_time < 6
    \/ current_time = 6 /\ pc \in {"arrivals", "deadlines", "replenish"}
ScenarioC_DeferredReplenishment ==
    (scn = ScenarioC /\ pc \notin {"new", "loaded"}) =>
        LET a == task_instances[AperiodicJobC]
        IN  /\ a.started => a.start_time = 1
            /\ current_time >= 2 => a.started /\ a.completion_time = 2
            /\ ~a.started => server.current_capacity = 2
            /\ (a.started /\ BeforeReplenishAt6) => server.current_capacity = 1
            /\ ~BeforeReplenishAt6 => server.current_capacity = 2

ScenarioC_ReplenishedAt6 ==
    /\ scn = ScenarioC /\ pc = "select" /\ current_time = 6
    /\ task_instances[AperiodicJobC].started
    /\ server.current_capacity = 2

\* C6: after a completed run, resetting and running again on the same
\* Simulator gives an event log identical to that of the first run.
RerunSameLog ==
    (pc = "done" /\ run_no = 2) => schedule_events = first_log

CompletedOrMissed == Range(completed_tasks) \cup Range(missed_deadlines)

TerminalExclusive ==
    /\ Range(completed_tasks) \cap Range(missed_deadlines) = {}
    /\ NoDuplicates(completed_tasks)
    /\ NoDuplicates(missed_deadlines)
    /\ CompletedOrMissed \cap Range(ready_queue) = {}

TerminalStays ==
    \A j \in CompletedOrMissed :
        /\ ~InSeq(j, ready_queue')
        /\ current_task' # j
        /\ task_instances'[j] = task_instances[j]

\* C7: completion and deadline miss are mutually exclusive terminal states:
\* no job is in both lists, none appears twice in a list, a job in a list is
\* not in the ready set, and is never re-admitted or executed again.
TerminalOnce == []TerminalExclusive /\ [][TerminalStays]_vars

BothTerminalKinds ==
    pc = "done" /\ completed_tasks # <<>> /\ missed_deadlines # <<>>

\* C8 as stated: every completed job has release_time <= start_time <=
\* completion_time and remaining_time = 0.
CompletedRemainingZero ==
    \A j \in Range(completed_tasks) :
        /\ task_instances[j].current_release <= task_instances[j].start_time
        /\ task_instances[j].start_time <= task_instances[j].completion_time
        /\ task_instances[j].remaining = 0

\* C8 amended: every completed job has release_time <= start_time <=
\* completion_time and remaining_time <= 1e-9 (it is complete in the sense
\* of Job.is_complete).
CompletedTimesOrdered ==
    \A j \in Range(completed_tasks) :
        /\ task_instances[j].current_release <= task_instances[j].start_time
        /\ task_instances[j].start_time <= task_instances[j].completion_time
        /\ 0 <= task_instances[j].remaining
        /\ task_instances[j].remaining <= Epsilon(scn.unit)

CompletedWithResidue ==
    \E j \in Range(completed_tasks) :
        /\ task_instances[j].remaining > 0
        /\ task_instances[j].start_time < task_instances[j].completion_time

\* C9: every job in the missed list was recorded as missed at a time strictly
\* greater than its absolute deadline, has remaining_time > 0 and has no
\* completion_time.
MissedAfterDeadline ==
    \A j \in Range(missed_deadlines) :
        /\ \E i \in EventsOf("DEADLINE_MISS") : schedule_events[i].task = j
        /\ \A i \in EventsOf("DEADLINE_MISS") :
              schedule_events[i].task = j =>
                  schedule_events[i].time > task_instances[j].abs_deadline
        /\ task_instances[j].remaining > 0
        /\ task_instances[j].completion_time = NoTime

MissRecorded ==
    pc = "replenish" /\ missed_deadlines # <<>>
    /\ schedule_events[Len(schedule_events)].event_type = "DEADLINE_MISS"

\* C10: at every point of a run, completed + missed is at most the number of
\* generated job activations.
TerminalCountBounded ==
    statistics.total_tasks <= Len(task_instances)

AllActivationsTerminal ==
    /\ pc = "done" /\ Len(task_instances) >= 2
    /\ missed_deadlines # <<>>
    /\ Len(completed_tasks) + Len(missed_deadlines) = Len(task_instances)

ReleasedBeforeHorizon ==
    {j \in 1..Len(task_instances) :
        task_instances[j].current_release < scn.simulation_time}

Admitted ==
    {schedule_events[i].task : i \in EventsOf("ARRIVAL")}

\* C11 as stated: when the run has ended, every activation released before
\* the horizon is in the completed list or in the missed list, and total_tasks
\* is the number of those activations.
AllReleasedTerminalAtEnd ==
    pc = "done" =>
        /\ ReleasedBeforeHorizon \subseteq CompletedOrMissed
        /\ statistics.total_tasks = Cardinality(ReleasedBeforeHorizon)

\* C11 amended: when the run has ended, every activation that was admitted
\* (it has an ARRIVAL event) was released before the horizon and is in exactly
\* one of the completed list, the missed list and the ready set, and nothing
\* else is in them; total_tasks is the number of admitted activations less the
\* number still ready, hence at most the number released before the horizon.
AdmittedAccountedAtEnd ==
    pc = "done" =>
        /\ Admitted \subseteq ReleasedBeforeHorizon
        /\ Admitted = CompletedOrMissed \cup Range(ready_queue)
        /\ CompletedOrMissed \cap Range(ready_queue) = {}
        /\ Cardinality(EventsOf("ARRIVAL")) = Cardinality(Admitted)
        /\ statistics.total_tasks + Len(ready_queue) = Cardinality(Admitted)
        /\ statistics.total_tasks <= Cardinality(ReleasedBeforeHorizon)

StillReadyAtEnd ==
    /\ pc = "done"
    /\ ready_queue # <<>>
    /\ completed_tasks # <<>>
    /\ statistics.total_tasks < Cardinality(ReleasedBeforeHorizon)

\* C12: a Polling, Deferrable or Sporadic server created with positive
\* capacity and period has 0 <= current_capacity <= capacity after any
\* sequence of can_serve, consume, replenish and reset calls with
\* non-negative amounts.
CapacityWithinBounds ==
    /\ 0 <= server.current_capacity
    /\ server.current_capacity <= server.capacity

ConsumedMoreThanLeft ==
    /\ call.op = "consume"
    /\ call.amount > server.capacity
    /\ server.current_capacity = 0

SporadicLookup ==
    /\ server.kind = "Sporadic"
    /\ call'.op \in {"can_serve", "replenish"}

RECURSIVE SumAmounts(_)
SumAmounts(queue) ==
    IF queue = <<>> THEN 0 ELSE Head(queue)[2] + SumAmounts(Tail(queue))

DueAt(now) == SelectSeq(server.replenishment_queue, LAMBDA e : e[1] <= now)
LaterThan(now) == SelectSeq(server.replenishment_queue, LAMBDA e : e[1] > now)

\* C13 as stated: after amount a (<= current_capacity) was consumed at t on a
\* Sporadic server and nothing consumed since, a can_serve or replenish call
\* with now < t + period leaves current_capacity unchanged, and the first one
\* with now >= t + period raises it by exactly a (capped at capacity), removes
\* the entry and keeps the entries scheduled later than now.
LastConsumptionStep ==
    (SporadicLookup /\ ~call.consumed.returned) =>
        LET t == call.consumed.time
            a == call.consumed.amount
            now == call'.time
        IN  IF now < t + server.period
            THEN server'.current_capacity = server.current_capacity
            ELSE /\ server'.current_capacity =
                        Min(server.capacity, server.current_capacity + a)
                 /\ ~InSeq(<<t + server.period, a>>, server'.replenishment_queue)
                 /\ server'.replenishment_queue = LaterThan(now)
LastConsumptionReturned == [][LastConsumptionStep]_vars

\* C13 amended: a consumption of a > 0 at t queues the entry (t + period, a)
\* behind the entries already queued; every can_serve or replenish call at
\* now applies all queued entries with scheduled time <= now together
\* (current_capacity rises by the sum of their amounts, capped at capacity)
\* and removes them, and leaves current_capacity unchanged when none is due;
\* the entries scheduled later than now stay queued in their order.  So the
\* entry of the last consumption is untouched by a call with now < t + period
\* and applied by the first call with now >= t + period.
DueEntriesStep ==
    /\ SporadicLookup =>
        LET now == call'.time
        IN  /\ server'.replenishment_queue = LaterThan(now)
            /\ server'.current_capacity =
                   Min(server.capacity, server.current_capacity + SumAmounts(DueAt(now)))
            /\ DueAt(now) = <<>> => server'.current_capacity = server.current_capacity
            /\ ~call.consumed.returned =>
                   LET entry == <<call.consumed.time + server.period, call.consumed.amount>>
                   IN  IF now < entry[1]
                       THEN InSeq(entry, server.replenishment_queue) =>
                                InSeq(entry, server'.replenishment_queue)
                       ELSE ~InSeq(entry, server'.replenishment_queue)
    /\ (server.kind = "Sporadic" /\ call'.op = "consume") =>
        LET a == Min(call'.amount, server.current_capacity)
        IN  /\ server'.current_capacity = server.current_capacity - a
            /\ server'.replenishment_queue =
                   IF a > 0
                   THEN Append(server.replenishment_queue,
                               <<call'.time + server.period, a>>)
                   ELSE server.replenishment_queue
DueEntriesReturned == [][DueEntriesStep]_vars

ConsumptionReturnedLaterQueued ==
    /\ server.kind = "Sporadic"
    /\ call.op \in {"can_serve", "replenish"}
    /\ call.consumed.time # NoTime
    /\ call.consumed.returned
    /\ call.time >= call.consumed.time + server.period
    /\ server.current_capacity >= call.consumed.amount
    /\ server.replenishment_queue # <<>>
    /\ \A i \in 1..Len(server.replenishment_queue) :
           server.replenishment_queue[i][1] > call.time

\* C14: once step 2 of an iteration has run, no periodic or dynamic job that is
\* incomplete and has absolute_deadline <= now is left in the ready set (it
\* was removed and recorded missed with a DEADLINE_MISS event), so none can be
\* selected in that iteration.
DueJobsRemovedBeforeSelect ==
    pc \in {"replenish", "select"} =>
        \A i \in 1..Len(ready_queue) :
            LET job == task_instances[ready_queue[i]]
            IN  (job.type # "A" /\ ~is_complete(job, scn.unit)) =>
                    ~(job.abs_deadline <= current_time)

\* C15: aperiodic jobs are exempt from deadline enforcement: none is in the
\* missed list, none has a DEADLINE_MISS event, and an admitted aperiodic job
\* that is incomplete is in the ready set.
AperiodicNeverMissed ==
    /\ \A j \in Range(missed_deadlines) : task_instances[j].type # "A"
    /\ \A i \in EventsOf("DEADLINE_MISS") :
           task_instances[schedule_events[i].task].type # "A"
    /\ \A j \in Admitted :
           (task_instances[j].type = "A" /\ ~is_complete(task_instances[j], scn.unit))
               => InSeq(j, ready_queue)

Executed(j) == task_instances'[j].remaining < task_instances[j].remaining
HardReady == {j \in Range(ready_queue) : task_instances[j].type \in {"P", "D"}}

\* C16: periodic and dynamic jobs have strict priority over aperiodic jobs: in
\* an iteration an aperiodic job is executed only if no periodic or dynamic
\* job is ready and the server's can_serve(now) is true, and whenever a
\* periodic or dynamic job is ready the job executed is periodic or dynamic.
StrictPriorityStep ==
    pc = "select" =>
        /\ \A j \in 1..Len(task_instances) :
               (Executed(j) /\ task_instances[j].type = "A") =>
                   /\ HardReady = {}
                   /\ can_serve(server, current_time)
        /\ HardReady # {} =>
               \E j \in HardReady :
                   /\ Executed(j)
                   /\ \A k \in 1..Len(task_instances) : Executed(k) => k = j
StrictPriority == [][StrictPriorityStep]_vars

HardJobRanWhileAperiodicReady ==
    /\ pc = "arrivals"
    /\ \E a \in Range(ready_queue) : \E j \in 1..Len(task_instances) :
           /\ task_instances[a].type = "A"
           /\ task_instances[a].start_time = NoTime
           /\ task_instances[j].type \in {"P", "D"}
           /\ task_instances[j].start_time # NoTime
           /\ task_instances[j].start_time >= task_instances[a].current_release
           /\ task_instances[j].current_release <= task_instances[a].current_release

SelectionKey(policy, j) ==
    LET job == task_instances[j]
        task == scn.tasks[job.task]
    IN  CASE policy = "RM" -> IF job.type = "A" THEN Infinity ELSE task.period
          [] policy = "DM" -> IF job.type = "A" THEN Infinity ELSE task.deadline
          [] policy = "EDF" -> job.abs_deadline
          [] policy = "FCFS" -> job.current_release
          [] policy = "SJF" -> job.remaining
          [] policy = "LST" -> job.abs_deadline - sched_time - job.remaining

MinimalMember(policy, queue) ==
    LET r == select_task(policy, queue, task_instances, scn.tasks, sched_time)
    IN  /\ r = NONE <=> queue = <<>>
        /\ queue # <<>> =>
               /\ InSeq(r, queue)
               /\ \A i \in 1..Len(queue) :
                      SelectionKey(policy, r) <= SelectionKey(policy, queue[i])

\* C17: for each of the six policies, select returns None iff the ready
\* collection is empty, and otherwise a member of it whose key is minimal
\* (RM period, DM relative deadline, both infinite for aperiodic jobs; EDF
\* absolute deadline; FCFS release time; SJF remaining time; LST
\* absolute_deadline - now - remaining_time).
SelectReturnsMinimal ==
    pc = "select" =>
        \A policy \in Policies :
            /\ MinimalMember(policy, ready_queue)
            /\ MinimalMember(policy, periodic_ready)
            /\ MinimalMember(policy, aperiodic_ready)
            /\ MinimalMember(policy, <<>>)

SelectedNotFirst ==
    /\ pc = "select"
    /\ Len(periodic_ready) >= 2
    /\ next_task # periodic_ready[1]
    /\ SelectionKey(scn.policy, next_task) < SelectionKey(scn.policy, periodic_ready[1])

\* the ready jobs select is applied to when job j is chosen: the periodic and
\* dynamic ones, or the aperiodic ones
Rivals(j) ==
    {i \in 1..Len(ready_queue) :
        (task_instances[ready_queue[i]].type = "A") = (task_instances[j].type = "A")}
ReadyPosition(j) == CHOOSE i \in 1..Len(ready_queue) : ready_queue[i] = j

\* C18: ties are broken by ready order, first admitted wins: the job executed
\* has a minimal key among the jobs it was selected from, every job admitted
\* before it has a strictly greater key, and the running job is not displaced
\* by a job admitted later with an equal key.
FirstAdmittedStep ==
    pc = "select" =>
        \A j \in 1..Len(task_instances) :
            Executed(j) =>
                /\ InSeq(j, ready_queue)
                /\ \A i \in Rivals(j) :
                       /\ SelectionKey(scn.policy, j) <= SelectionKey(scn.policy, ready_queue[i])
                       /\ i < ReadyPosition(j) =>
                              SelectionKey(scn.policy, j) < SelectionKey(scn.policy, ready_queue[i])
                /\ (/\ current_task # NONE
                    /\ current_task # j
                    /\ InSeq(current_task, ready_queue)
                    /\ SelectionKey(scn.policy, current_task) = SelectionKey(scn.policy, j))
                       => \/ ReadyPosition(j) < ReadyPosition(current_task)
                          \/ ReadyPosition(current_task) \notin Rivals(j)
FirstAdmittedWins == [][FirstAdmittedStep]_vars

RunningKeptOnTie ==
    /\ pc = "select"
    /\ current_task # NONE
    /\ next_task = current_task
    /\ \E i \in Rivals(current_task) :
           /\ i > ReadyPosition(current_task)
           /\ SelectionKey(scn.policy, ready_queue[i]) =
                  SelectionKey(scn.policy, current_task)

JobsOf(ti) == {j \in 1..Len(task_instances) : task_instances[j].task = ti}

ExpectedReleases(ti) ==
    LET task == scn.tasks[ti]
    IN  CASE task.type = "P" ->
                {t \in 0..(scn.simulation_time - 1) :
                    \E k \in 0..scn.simulation_time :
                        t = task.release_time + k * task.period}
          [] task.type = "D" -> {0}
          [] task.type = "A" -> {task.release_time}

\* C19: loading a task set generates, for each periodic task, exactly one job
\* at each release_time + k * period below the horizon and none at or after
\* it; for each dynamic task exactly one job released at 0; for each
\* aperiodic task exactly one job released at its release_time.
ActivationsGenerated ==
    pc # "new" =>
        /\ \A j \in 1..Len(task_instances) :
               task_instances[j].task \in 1..Len(scn.tasks)
        /\ \A ti \in 1..Len(scn.tasks) :
               /\ {task_instances[j].current_release : j \in JobsOf(ti)}
                      = ExpectedReleases(ti)
               /\ Cardinality(JobsOf(ti)) = Cardinality(ExpectedReleases(ti))

LoadedUpToHorizon ==
    /\ pc = "loaded"
    /\ \E ti \in 1..Len(scn.tasks) :
           /\ scn.tasks[ti].type = "P"
           /\ \E k \in 1..scn.simulation_time :
                  scn.tasks[ti].release_time + k * scn.tasks[ti].period
                      = scn.simulation_time
           /\ Cardinality(JobsOf(ti)) >= 2
    /\ \E ti \in 1..Len(scn.tasks) :
           /\ scn.tasks[ti].type = "D"
           /\ scn.tasks[ti].release_time # 0
           /\ Cardinality(JobsOf(ti)) = 1

KindRank(type) == CASE type = "P" -> 1 [] type = "D" -> 2 [] type = "A" -> 3

ReleaseAscending ==
    \A i, k \in 1..Len(task_instances) :
        i < k => task_instances[i].current_release <= task_instances[k].current_release

\* C20 as stated: the generated sequence is ordered by release time, and jobs
\* with equal release time are in the definition order of their tasks,
\* whatever their kind.
TiesInDefinitionOrder ==
    /\ ReleaseAscending
    /\ \A i, k \in 1..Len(task_instances) :
           (i < k /\ task_instances[i].current_release = task_instances[k].current_release)
               => task_instances[i].task < task_instances[k].task

\* C20 amended: the generated sequence is ordered by release time, and jobs
\* with equal release time are ordered by kind, periodic before dynamic
\* before aperiodic, and within a kind in the definition order of their tasks.
TiesByKindThenDefinitionOrder ==
    /\ ReleaseAscending
    /\ \A i, k \in 1..Len(task_instances) :
           (i < k /\ task_instances[i].current_release = task_instances[k].current_release)
               => \/ KindRank(task_instances[i].type) < KindRank(task_instances[k].type)
                  \/ /\ task_instances[i].type = task_instances[k].type
                     /\ task_instances[i].task < task_instances[k].task

LaterDefinedPeriodicFirst ==
    /\ pc = "loaded"
    /\ \E i, k \in 1..Len(task_instances) :
           /\ i < k
           /\ task_instances[i].current_release = task_instances[k].current_release
           /\ task_instances[i].task > task_instances[k].task
           /\ task_instances[i].type = "P"
           /\ task_instances[k].type = "D"

AperiodicExecuted ==
    \E j \in 1..Len(task_instances) : Executed(j) /\ task_instances[j].type = "A"

\* C21: with a Polling server the budget ticks down whenever the server is
\* scheduled: in an iteration in which no aperiodic job executes, a positive
\* current_capacity still decreases (unused capacity is lost), never below 0.
PollingTicksDownStep ==
    (server.kind = "Polling" /\ pc = "select" /\ ~AperiodicExecuted
        /\ server.current_capacity > 0) =>
            /\ server'.current_capacity < server.current_capacity
            /\ server'.current_capacity >= 0
PollingTicksDown == [][PollingTicksDownStep]_vars

ExecutedAmount(j) == task_instances[j].remaining - task_instances'[j].remaining

\* C22: with a Deferrable server, an iteration in which no aperiodic job
\* executes leaves current_capacity unchanged, the replenishment step changes
\* it only by refilling it to capacity at a period boundary, and it decreases
\* only by the amount executed for an aperiodic job (not below 0).
BandwidthPreservedStep ==
    server.kind = "Deferrable" =>
        /\ (pc = "select" /\ ~AperiodicExecuted) =>
               server'.current_capacity = server.current_capacity
        /\ pc = "select" =>
               \A j \in 1..Len(task_instances) :
                   (Executed(j) /\ task_instances[j].type = "A") =>
                       server'.current_capacity =
                           Max(0, server.current_capacity - ExecutedAmount(j))
        /\ pc = "replenish" =>
               \/ server'.current_capacity = server.current_capacity
               \/ /\ server'.current_capacity = server.capacity
                  /\ current_time - server.last_replenishment_time >= server.period
        /\ pc \notin {"select", "replenish"} =>
               server'.current_capacity = server.current_capacity
BandwidthPreserved == [][BandwidthPreservedStep]_vars

CapacityKeptWhileIdle ==
    /\ server.kind = "Deferrable"
    /\ pc = "arrivals"
    /\ server.is_active
    /\ 0 < server.current_capacity
    /\ server.current_capacity < server.capacity
    /\ schedule_events[Len(schedule_events)].event_type = "IDLE"

\* C23: on a Polling or Deferrable server replenish(now) sets current_capacity
\* to capacity and last_replenishment_time to now (and clears the Deferrable
\* is_active flag) exactly when now - last_replenishment_time >= period, and
\* otherwise changes nothing; so two successive replenishments are at least
\* one period apart, and no other call but reset moves the replenishment time.
PeriodicReplenishStep ==
    server.kind \in {"Polling", "Deferrable"} =>
        /\ call'.op = "replenish" =>
               IF call'.time - server.last_replenishment_time >= server.period
               THEN /\ server'.current_capacity = server.capacity
                    /\ server'.last_replenishment_time = call'.time
                    /\ server'.is_active = (server.kind = "Polling" /\ server.is_active)
                    /\ server'.capacity = server.capacity
                    /\ server'.period = server.period
                    /\ server'.kind = server.kind
                    /\ server'.replenishment_queue = server.replenishment_queue
               ELSE server' = server
        /\ call'.op # "reset" =>
               \/ server'.last_replenishment_time = server.last_replenishment_time
               \/ server'.last_replenishment_time - server.last_replenishment_time
                      >= server.period
        /\ call'.op \in {"can_serve", "consume"} =>
               /\ server'.last_replenishment_time = server.last_replenishment_time
               /\ server'.current_capacity <= server.current_capacity
PeriodicReplenish == [][PeriodicReplenishStep]_vars

RefilledAtBoundary ==
    /\ server.kind = "Deferrable"
    /\ call.op = "replenish"
    /\ call.time = server.period
    /\ server.last_replenishment_time = call.time
    /\ server.current_capacity = server.capacity
    /\ ~server.is_active

IterationStep ==
    /\ pc = "select" => current_time' > current_time
    /\ pc # "select" => current_time' = current_time \/ pc = "loaded"
    /\ (pc = "arrivals" /\ current_time >= scn.simulation_time) => pc' = "done"
    /\ pc' = "done" => (pc = "arrivals" /\ current_time >= scn.simulation_time)
    /\ (pc = "arrivals" /\ current_time < scn.simulation_time) => pc' = "deadlines"

EndsWithEND ==
    pc = "done" =>
        /\ current_time >= scn.simulation_time
        /\ schedule_events[Len(schedule_events)] = ScheduleEvent(current_time, NONE, "END")
        /\ \A i \in 1..(Len(schedule_events) - 1) :
               schedule_events[i].event_type # "END"

\* C24: for simulation_time > 0, time_quantum > 0 and a valid task set, run()
\* terminates: every iteration strictly increases now, the loop stops at the
\* first iteration boundary with now >= horizon, and the last event of the
\* log is END.
RunTerminates ==
    /\ (pc = "loaded") ~> (pc = "done")
    /\ [][IterationStep]_vars
    /\ []EndsWithEND

StoppedPastHorizon ==
    /\ pc = "done"
    /\ current_time > scn.simulation_time
    /\ schedule_events[Len(schedule_events)].event_type = "END"
    /\ Len(completed_tasks) >= 2

AcceptedSchedulerNames ==
    {"RM", "rm", "Rm", "RATE_MONOTONIC", "rate_monotonic", "Rate_monotonic",
     "EDF", "edf", "Edf", "EARLIEST_DEADLINE_FIRST",
     "earliest_deadline_first", "Earliest_deadline_first", "DM", "dm", "Dm",
     "DEADLINE_MONOTONIC", "deadline_monotonic", "Deadline_monotonic",
     "FCFS", "fcfs", "Fcfs", "FIFO", "fifo", "Fifo", "SJF", "sjf", "Sjf",
     "SHORTEST_JOB_FIRST", "shortest_job_first", "Shortest_job_first", "LST",
     "lst", "Lst", "LEAST_SLACK_TIME", "least_slack_time",
     "Least_slack_time"}
BackgroundNames == {"BACKGROUND", "background", "Background"}
BudgetServerNames ==
    {"POLLING", "polling", "Polling", "DEFERRABLE", "deferrable",
     "Deferrable", "SPORADIC", "sporadic", "Sporadic"}

\* C25: construction by name fails with an error and gives no object when the
\* scheduler name or the server name is not recognized, or when a Polling,
\* Deferrable or Sporadic server is given capacity <= 0 or period <= 0; the
\* names are recognized in any letter case, and a Background server needs no
\* capacity or period.
ConstructionRejectsBadInput ==
    /\ made.op = "create_scheduler" =>
           (made.result.raised <=> made.name \notin AcceptedSchedulerNames)
    /\ made.op = "create_server" =>
           /\ made.result.raised <=>
                  \/ made.name \notin BackgroundNames \cup BudgetServerNames
                  \/ /\ made.name \in BudgetServerNames
                     /\ made.capacity <= 0 \/ made.period <= 0
           /\ ~made.result.raised =>
                  IF made.name \in BackgroundNames
                  THEN made.result.object.kind = "Background"
                  ELSE /\ made.result.object.kind # "Background"
                       /\ made.result.object.capacity = made.capacity
                       /\ made.result.object.period = made.period
                       /\ made.result.object.current_capacity = made.capacity
    /\ (made.op # "none" /\ made.result.raised) =>
           /\ made.result.object = "none"
           /\ made.result.error = "ValueError"

LowerCaseServerWithoutPeriod ==
    /\ made.op = "create_server"
    /\ made.name = "deferrable"
    /\ made.capacity > 0
    /\ made.period = 0
    /\ made.result.raised

\* C26: a configuration with simulation_time <= 0 or time_quantum <= 0 is
\* rejected by the core instead of being run: no run is begun with it, so
\* nothing is logged.
NonPositiveConfigRejected ==
    (scn.simulation_time <= 0 \/ scn.time_quantum <= 0) =>
        /\ pc \in {"new", "loaded"}
        /\ schedule_events = <<>>

HardTaskCount ==
    Cardinality({i \in 1..Len(scn.tasks) : scn.tasks[i].type \in {"P", "D"}})

\* C27: schedulable_rm is true iff the combined utilization of the periodic
\* and dynamic tasks is at most rm_bound(task_count), with rm_bound(0) = 1,
\* and schedulable_edf is true iff that combined utilization is at most 1.
SchedulableFromCombined ==
    pc # "new" =>
        LET report == calculate_utilization(scn.tasks)
        IN  /\ report.schedulable_rm <=>
                   within_rm_bound(report.total_utilization, report.denominator,
                                   HardTaskCount)
            /\ report.schedulable_edf <=>
                   report.total_utilization <= report.denominator

PreemptEventsOf(events, j) ==
    Cardinality({i \in 1..Len(events) :
                    events[i].event_type = "PREEMPT" /\ events[i].task = j})

\* job j is the current job, still ready and incomplete, the configuration
\* is preemptive and this iteration runs another job
Preempted(j) ==
    /\ pc = "select"
    /\ scn.preemptive
    /\ current_task = j
    /\ j \in Range(ready_queue)
    /\ ~is_complete(task_instances[j], scn.unit)
    /\ \E k \in 1..Len(task_instances) : k # j /\ Executed(k)

PreemptionStep ==
    \A j \in 1..Len(task_instances) :
        LET count == IF Preempted(j) THEN 1 ELSE 0
        IN  /\ PreemptEventsOf(schedule_events', j) =
                   PreemptEventsOf(schedule_events, j) + count
            /\ task_instances'[j].preemption_count =
                   task_instances[j].preemption_count + count

PreemptionCountMatchesLog ==
    \A j \in 1..Len(task_instances) :
        task_instances[j].preemption_count = PreemptEventsOf(schedule_events, j)

\* C28: a PREEMPT event for job J is logged, and J.preemption_count grows by
\* one, exactly in the iterations where the configuration is preemptive, J is
\* the current job (ready and incomplete) and another job runs; so each job's
\* preemption_count equals the number of its PREEMPT events, and there is no
\* PREEMPT event when preemptive is false.
PreemptionAccounting ==
    /\ [][PreemptionStep]_vars
    /\ []PreemptionCountMatchesLog
    /\ [](~scn.preemptive => EventsOf("PREEMPT") = {})

PreemptedOnceLogged ==
    \E j \in 1..Len(task_instances) :
        /\ scn.preemptive
        /\ task_instances[j].preemption_count = 1
        /\ PreemptEventsOf(schedule_events, j) = 1
        /\ current_task \notin {NONE, j}
        /\ j \in Range(ready_queue)

\* the events this step appends to the log
NewEvents ==
    SubSeq(schedule_events', Len(schedule_events) + 1, Len(schedule_events'))
ExecutedJobs == {k \in 1..Len(task_instances) : Executed(k)}

\* the iteration runs a job other than a non-empty current job
SwitchedFromCurrent ==
    /\ pc = "select"
    /\ current_task # NONE
    /\ \E k \in ExecutedJobs : k # current_task

OverheadCharged ==
    IF SwitchedFromCurrent THEN scn.context_switch_overhead ELSE 0

ContextSwitchStep ==
    pc = "select" =>
        LET new == NewEvents
            switches == {i \in 1..Len(new) : new[i].event_type = "CONTEXT_SWITCH"}
        IN  /\ SubSeq(schedule_events', 1, Len(schedule_events)) = schedule_events
            /\ Cardinality(switches) = IF OverheadCharged > 0 THEN 1 ELSE 0
            /\ \A k \in ExecutedJobs :
                   /\ current_time' =
                          current_time + OverheadCharged + ExecutedAmount(k)
                   /\ \A i \in switches :
                          /\ new[i].time = current_time + OverheadCharged
                          /\ new[i].task = NONE
                          /\ \A n \in 1..Len(new) :
                                 new[n].event_type \in {"START", "COMPLETE"} => i < n
                   /\ \A n \in 1..Len(new) :
                          new[n].event_type = "START" =>
                              /\ new[n].task = k
                              /\ new[n].time = current_time + OverheadCharged
            /\ ExecutedJobs = {} => switches = {}

\* C29: with context_switch_overhead > 0, exactly in the iterations where the
\* job that runs differs from a non-empty current job, now is advanced by the
\* overhead and one CONTEXT_SWITCH event is logged before the job executes and
\* before its START event; when the same job continues or there is no current
\* job, nothing is charged and no CONTEXT_SWITCH event is logged.
ContextSwitchOverhead == [][ContextSwitchStep]_vars

SwitchLoggedBeforeStart ==
    /\ scn.context_switch_overhead > 0
    /\ \E i \in EventsOf("CONTEXT_SWITCH") :
           /\ i < Len(schedule_events)
           /\ schedule_events[i + 1].event_type = "START"
           /\ schedule_events[i + 1].time = schedule_events[i].time
           /\ schedule_events[i - 1].event_type = "PREEMPT"
           /\ schedule_events[i - 1].time + scn.context_switch_overhead =
                  schedule_events[i].time

JobEvents(j, event_types) ==
    {i \in 1..Len(schedule_events) :
        /\ schedule_events[i].task = j
        /\ schedule_events[i].event_type \in event_types}

NeverExecuted(j) ==
    task_instances[j].remaining = scn.tasks[task_instances[j].task].execution_time

\* a START event of job j is appended exactly by the step of its first execution
StartAtFirstExecutionStep ==
    \A j \in 1..Len(task_instances) :
        (\E n \in 1..Len(NewEvents) :
             NewEvents[n].task = j /\ NewEvents[n].event_type = "START")
        <=> (pc = "select" /\ NeverExecuted(j) /\ Executed(j))

JobEventsOrdered ==
    \A j \in 1..Len(task_instances) :
        LET arrivals == JobEvents(j, {"ARRIVAL"})
            starts == JobEvents(j, {"START"})
            terminals == JobEvents(j, {"COMPLETE", "DEADLINE_MISS"})
        IN  /\ Cardinality(arrivals) <= 1
            /\ Cardinality(starts) <= 1
            /\ Cardinality(terminals) <= 1
            /\ \A s \in starts : \E a \in arrivals : a < s
            /\ \A t \in terminals :
                   /\ \E a \in arrivals : a < t
                   /\ \A s \in starts : s < t
            /\ \A c \in JobEvents(j, {"COMPLETE"}) : \E s \in starts : s < c
            /\ starts = {} <=> task_instances[j].start_time = NoTime
            /\ \A s \in starts :
                   schedule_events[s].time = task_instances[j].start_time

\* C30: in the log of one run each job has at most one ARRIVAL, at most one
\* START and at most one terminal event (COMPLETE or DEADLINE_MISS), in that
\* order; START is logged in the iteration where the job first executes,
\* start_time is the time of the START event, and a COMPLETE event is
\* preceded by the START of its job.
PerJobEventOrder ==
    /\ []JobEventsOrdered
    /\ [][StartAtFirstExecutionStep]_vars

StartedLateThenCompleted ==
    \E j \in 1..Len(task_instances) :
        /\ Cardinality(JobEvents(j, {"ARRIVAL"})) = 1
        /\ Cardinality(JobEvents(j, {"START"})) = 1
        /\ Cardinality(JobEvents(j, {"COMPLETE"})) = 1
        /\ task_instances[j].start_time > task_instances[j].current_release
        /\ task_instances[j].completion_time > task_instances[j].start_time + 1

\* job j has executed, is incomplete and is still in the ready queue
StartedAndReady(j) ==
    /\ j \in Range(ready_queue)
    /\ ~NeverExecuted(j)
    /\ ~is_complete(task_instances[j], scn.unit)

FCFSRunsToEndStep ==
    (scn.policy = "FCFS" /\ pc = "select") =>
        \A j \in 1..Len(task_instances) :
            StartedAndReady(j) => ExecutedJobs \subseteq {j}

\* C31: under FCFS a job that has started executing is not displaced by
\* another job before it completes or misses its deadline, and the log of an
\* FCFS run has no PREEMPT event.
FCFSNonPreemptive ==
    /\ [][FCFSRunsToEndStep]_vars
    /\ [](scn.policy = "FCFS" => EventsOf("PREEMPT") = {})

FCFSRivalWaits ==
    /\ scn.policy = "FCFS"
    /\ scn.preemptive
    /\ pc = "select"
    /\ \E j, k \in Range(ready_queue) :
           /\ StartedAndReady(j)
           /\ current_task = j
           /\ NeverExecuted(k)
           /\ task_instances[k].current_release > task_instances[j].current_release
           /\ task_instances[k].abs_deadline < task_instances[j].abs_deadline

\* C32: every periodic or dynamic job in the completed list met its deadline:
\* its completion_time is at most its abs_deadline.
CompletedMetDeadline ==
    \A i \in 1..Len(completed_tasks) :
        LET job == task_instances[completed_tasks[i]]
        IN  job.type \in {"P", "D"} => job.completion_time <= job.abs_deadline

NonPreemptiveStep ==
    (~scn.preemptive /\ pc = "select") =>
        \A j \in 1..Len(task_instances) :
            StartedAndReady(j) => ExecutedJobs \subseteq {j}

\* C33: with preemptive = false, once a job has started executing no other
\* job executes until that job completes or misses its deadline.
NonPreemptiveRunsToEnd == [][NonPreemptiveStep]_vars

BudgetNotOverrunStep ==
    (pc = "select" /\ server.kind # "Background") =>
        \A j \in ExecutedJobs :
            task_instances[j].type = "A" =>
                ExecutedAmount(j) <=
                    after_can_serve(server, current_time).current_capacity

\* C34: under a Polling, Deferrable or Sporadic server an aperiodic job that
\* executes for an amount x in an iteration has x at most the current_capacity
\* of the server just before that execution, for every time_quantum and capacity.
BudgetNeverOverrun == [][BudgetNotOverrunStep]_vars

\* the earliest instant after the present state at which the server's
\* capacity is replenished
NextReplenishment ==
    IF server.kind = "Sporadic"
    THEN LET times == {server.replenishment_queue[i][1] :
                          i \in 1..Len(server.replenishment_queue)}
         IN  CHOOSE t \in times : \A u \in times : t <= u
    ELSE server.last_replenishment_time + server.period

\* an aperiodic job waits with the server's capacity exhausted and no
\* periodic or dynamic job ready
AperiodicWaitsForBudget ==
    /\ pc = "select"
    /\ server.kind # "Background"
    /\ server.current_capacity = 0
    /\ server.kind = "Sporadic" => server.replenishment_queue # <<>>
    /\ HardReady = {}
    /\ \E j \in Range(ready_queue) : task_instances[j].type = "A"

IdleStopsAtReplenishmentStep ==
    (AperiodicWaitsForBudget /\ ExecutedJobs = {}) =>
        current_time' <= NextReplenishment

\* C35: when an aperiodic job is ready, no periodic or dynamic job is ready
\* and the server's capacity is exhausted, the idle step advances now to no
\* later than the instant at which the capacity is next replenished.
IdleStopsAtReplenishment == [][IdleStopsAtReplenishmentStep]_vars

ExecutionStartsBeforeHorizonStep ==
    pc = "select" =>
        \A j \in ExecutedJobs :
            current_time' - ExecutedAmount(j) < scn.simulation_time

\* C36: every execution quantum of every job starts at a time strictly less
\* than simulation_time, also when context_switch_overhead > 0.
NoExecutionPastHorizon == [][ExecutionStartsBeforeHorizonStep]_vars

QueueOrdered(queue) ==
    \A i, k \in 1..Len(queue) : i < k => queue[i][1] <= queue[k][1]

SporadicConserved ==
    server.kind = "Sporadic" =>
        server.current_capacity + SumAmounts(server.replenishment_queue) =
            server.capacity

\* a consume call whose time is not earlier than the consumptions still
\* pending keeps the queue ordered; so does every other call
QueueStaysOrderedStep ==
    (server.kind = "Sporadic" /\ QueueOrdered(server.replenishment_queue)) =>
        \/ QueueOrdered(server'.replenishment_queue)
        \/ /\ call'.op = "consume"
           /\ \E i \in 1..Len(server.replenishment_queue) :
                  server.replenishment_queue[i][1] > call'.time + server.period

\* C37: in every reachable state of a Sporadic server current_capacity plus
\* the amounts in the replenishment queue equals capacity, and the queue
\* entries are in non-decreasing order of replenish time as long as consume
\* is called with non-decreasing times.
SporadicConservation ==
    /\ []SporadicConserved
    /\ [][QueueStaysOrderedStep]_vars

TwoConsumptionsPending ==
    /\ server.kind = "Sporadic"
    /\ Len(server.replenishment_queue) = 2
    /\ server.replenishment_queue[1][1] < server.replenishment_queue[2][1]
    /\ server.current_capacity = 0
    /\ server.capacity = 2
    /\ call.op = "consume"

\* C38: at the start of every loop iteration the current job is none or a
\* member of the ready queue, and the ready queue has no duplicates and holds
\* only jobs released at or before now that are incomplete (remaining > 0)
\* and in neither the completed list nor the missed list.
ReadySetInvariant ==
    pc = "arrivals" =>
        /\ current_task = NONE \/ current_task \in Range(ready_queue)
        /\ NoDuplicates(ready_queue)
        /\ \A j \in Range(ready_queue) :
               /\ task_instances[j].current_release <= current_time
               /\ task_instances[j].remaining > 0
               /\ ~is_complete(task_instances[j], scn.unit)
               /\ j \notin Range(completed_tasks)
               /\ j \notin Range(missed_deadlines)

IterationStartsWithCurrentJob ==
    /\ pc = "arrivals"
    /\ current_time < scn.simulation_time
    /\ current_task # NONE
    /\ Len(ready_queue) >= 2
    /\ completed_tasks # <<>>
    /\ missed_deadlines # <<>>

\* the for loop over the periodic tasks has ended: what follows is
\* straight-line code (the dynamic and aperiodic jobs and the sort)
LoopsLeft ==
    \/ pc = "generating" /\ generating.task > Len(periodic_tasks)
    \/ pc = "loaded"

\* an iteration of the while loop of one task brings its release_time closer
\* to the horizon, which is what makes the loop end
LoopProgressStep ==
    (pc = "generating" /\ pc' = "generating"
        /\ generating'.task = generating.task) =>
        generating'.release_time > generating.release_time

\* C39: the generation of the activations terminates for every task set the
\* caller may load, also one that fails validation, such as a periodic task
\* with period <= 0 and release_time before the horizon: every iteration of
\* the while loop makes progress towards the horizon and the loops are left.
GenerationTerminates ==
    /\ [][LoopProgressStep]_vars
    /\ (pc = "new") ~> LoopsLeft

\* C40: with a Polling or Deferrable server every value taken by
\* last_replenishment_time during a run is an integer multiple of the
\* server's period.
ReplenishmentAligned ==
    server.kind \in {"Polling", "Deferrable"} =>
        server.last_replenishment_time % server.period = 0

====
